---- MODULE Spec2Model ----
(***************************************************************************)
(* Model of the UPS HAT battery monitor: src/ups_monitor.py (variant 1,    *)
(* the rich Layout dashboard) and src/ups_monitor2.py (variant 2, the      *)
(* scrolling console).  Python exceptions are modelled by name: a function *)
(* that can raise returns a record whose field exc names the exception     *)
(* ("none" when it returns normally).  Python lists are 0-based, TLA+      *)
(* sequences 1-based: Python data[i] is data[i + 1] here.                  *)
(***************************************************************************)
EXTENDS Integers, Sequences, FiniteSets, TLC

VARIABLES
    pc1,        \* variant 1: position of main() (or how the process ended)
    low_count1, \* variant 1: main()'s LOCAL low_count (no `global` statement)
    current1,   \* variant 1: main()'s local current
    voltages1,  \* variant 1: main()'s local voltages
    layout,     \* variant 1: what each Layout region shows
    cyc1,       \* variant 1: what happened in the current poll cycle (history)
    pc2,        \* variant 2: position of main()
    low_count2, \* variant 2: the module global low_count
    current2,   \* variant 2: main()'s local current
    voltages2,  \* variant 2: main()'s local voltages
    console,    \* variant 2: panels printed since the last console.clear()
    cyc2,       \* variant 2: what happened in the current poll cycle (history)
    hist,       \* the last observations of the shutdown condition (history)
    gap,        \* a cycle failed before its check since the last observation (history)
    arg,        \* argument of the pure function applied on its own
    ret         \* its result

vars == <<pc1, low_count1, current1, voltages1, layout, cyc1,
          pc2, low_count2, current2, voltages2, console, cyc2, hist, gap, arg, ret>>

mainVars == <<pc1, low_count1, current1, voltages1, layout, cyc1,
              pc2, low_count2, current2, voltages2, console, cyc2, hist, gap>>

----------------------------------------------------------------------------
(* Bounds of the model *)

\* the counter is a Python int and never saturates: observations that would
\* take it past MaxCount are not explored
MaxCount == 4
\* panels on the console of variant 2 (errors pile up while the status read fails)
MaxConsole == 6
\* longest voltage list handed to get_health_indicator on its own
MaxLen == 3

----------------------------------------------------------------------------
(* Program constants *)

LOW_VOL == 2500
LOW_VOL2 == 2500

----------------------------------------------------------------------------
(* Python values *)

\* a local name that has not been assigned yet / a name bound to x
Unbound == <<>>
Bound(x) == <<x>>
ValueOf(o) == o[1]

NoExc == "none"
Raise(e) == [exc |-> e]
Return(v) == [exc |-> NoExc, val |-> v]

\* a | b on non-negative ints
RECURSIVE BitOr(_, _)
BitOr(a, b) ==
    IF a = 0 THEN b
    ELSE IF b = 0 THEN a
    ELSE (IF a % 2 = 1 \/ b % 2 = 1 THEN 1 ELSE 0) + 2 * BitOr(a \div 2, b \div 2)

\* a & b on non-negative ints
RECURSIVE BitAnd(_, _)
BitAnd(a, b) ==
    IF a = 0 \/ b = 0 THEN 0
    ELSE (IF a % 2 = 1 /\ b % 2 = 1 THEN 1 ELSE 0) + 2 * BitAnd(a \div 2, b \div 2)

\* a << n
ShiftLeft(a, n) == a * 2 ^ n

\* data[i] | data[i + 1] << 8  (i is the Python index of the low byte)
Word(data, i) == BitOr(data[i + 1], ShiftLeft(data[i + 2], 8))

\* max(list), min(list) of a non-empty list
max(s) == CHOOSE x \in {s[i] : i \in 1..Len(s)} : \A j \in 1..Len(s) : s[j] <= x
min(s) == CHOOSE x \in {s[i] : i \in 1..Len(s)} : \A j \in 1..Len(s) : x <= s[j]

----------------------------------------------------------------------------
(* get_charging_state *)

charging_state_map ==
    (64 :> "Fast Charging") @@ (128 :> "Charging") @@
    (32 :> "Discharging") @@ (0 :> "Idle")

charging_state_map2 ==
    (64 :> "Fast Charging") @@ (128 :> "Charging") @@
    (32 :> "Discharging") @@ (0 :> "Idle")

\* d[key]: a key the dict does not hold raises KeyError
Lookup(d, key) == IF key \in DOMAIN d THEN Return(d[key]) ELSE Raise("KeyError")

\* a plausible slip: the fallback looks up the Idle entry
get_charging_state_idle(data_byte) ==
    IF BitAnd(data_byte, 64) # 0 THEN Lookup(charging_state_map, 64)
    ELSE IF BitAnd(data_byte, 128) # 0 THEN Lookup(charging_state_map, 128)
    ELSE Lookup(charging_state_map, 0)

get_charging_state(data_byte) ==
    IF BitAnd(data_byte, 64) # 0 THEN Lookup(charging_state_map, 64)
    ELSE IF BitAnd(data_byte, 128) # 0 THEN Lookup(charging_state_map, 128)
    ELSE Lookup(charging_state_map, 32)

get_charging_state2(data_byte) ==
    IF BitAnd(data_byte, 64) # 0 THEN Lookup(charging_state_map2, 64)
    ELSE IF BitAnd(data_byte, 128) # 0 THEN Lookup(charging_state_map2, 128)
    ELSE Lookup(charging_state_map2, 32)

----------------------------------------------------------------------------
(* get_health_indicator *)

\* imbalance = (max_v - min_v) / max_v * 100 is a Python float.  It is kept
\* here as the exact fraction num / den; for 16-bit voltages the float
\* comparison `imbalance > 10` agrees with the exact one: an exact value
\* other than 10 is at least 10 / max_v > 1e-4 away from 10, far more than
\* the rounding error of a double, and 0.1 * 100 rounds to exactly 10.0.
Imbalance(max_v, min_v) == [num |-> (max_v - min_v) * 100, den |-> max_v]
GreaterThan(frac, n) == frac.num > n * frac.den

\* a plausible slip: the discharge test is made before the imbalance test
get_health_indicator_swapped(voltages, current, percentage) ==
    IF voltages = <<>> THEN Raise("ValueError")
    ELSE LET max_v == max(voltages)
             min_v == min(voltages)
         IN  IF max_v = 0 THEN Raise("ZeroDivisionError")
             ELSE IF current < -500 THEN Return("Fair")
             ELSE IF GreaterThan(Imbalance(max_v, min_v), 10) THEN Return("Poor")
             ELSE IF percentage < 20 THEN Return("Caution")
             ELSE Return("Good")

get_health_indicator(voltages, current, percentage) ==
    IF voltages = <<>> THEN Raise("ValueError")          \* max([]) raises
    ELSE LET max_v == max(voltages)
             min_v == min(voltages)
         IN  IF max_v = 0 THEN Raise("ZeroDivisionError") \* float division by 0
             ELSE IF GreaterThan(Imbalance(max_v, min_v), 10) THEN Return("Poor")
             ELSE IF current < -500 THEN Return("Fair")
             ELSE IF percentage < 20 THEN Return("Caution")
             ELSE Return("Good")

get_health_indicator2(voltages, current, percentage) ==
    IF voltages = <<>> THEN Raise("ValueError")
    ELSE LET max_v == max(voltages)
             min_v == min(voltages)
         IN  IF max_v = 0 THEN Raise("ZeroDivisionError")
             ELSE IF GreaterThan(Imbalance(max_v, min_v), 10) THEN Return("Poor")
             ELSE IF current < -500 THEN Return("Fair")
             ELSE IF percentage < 20 THEN Return("Caution")
             ELSE Return("Good")

----------------------------------------------------------------------------
(* Decoding of the pack current *)

\* a plausible slip: the textbook two's complement constant 0x10000
decode_current_twos(data) ==
    LET current == Word(data, 2)
    IN  IF current > 32767 THEN current - 65536 ELSE current

\* current = (data[2] | data[3] << 8); if current > 0x7FFF: current -= 0xFFFF
decode_current(data) ==
    LET current == Word(data, 2)
    IN  IF current > 32767 THEN current - 65535 ELSE current

decode_current2(data) ==
    LET current == Word(data, 2)
    IN  IF current > 32767 THEN current - 65535 ELSE current

----------------------------------------------------------------------------
(* Panels *)

EmptyPanel == [kind |-> "empty"]
WarningPanel == [kind |-> "warning"]
\* Panel(f"Error reading battery data: {str(e)}")
ErrorPanel(e) == [kind |-> "error", msg |-> e]

\* returns (panel, current); every data[0..11] is indexed before the health call
make_battery_panel(data) ==
    IF Len(data) < 12 THEN Raise("IndexError")
    ELSE LET battery_voltage == Word(data, 0)
             current == decode_current(data)
             battery_percent == Word(data, 4)
             health == get_health_indicator(<<battery_voltage>>, current, battery_percent)
         IN  IF health.exc # NoExc THEN health
             ELSE Return([panel |-> [kind |-> "battery", voltage |-> battery_voltage,
                                     current |-> current, percent |-> battery_percent,
                                     health |-> health.val],
                          current |-> current])

make_battery_info(data) ==
    IF Len(data) < 12 THEN Raise("IndexError")
    ELSE LET battery_voltage == Word(data, 0)
             current == decode_current2(data)
             battery_percent == Word(data, 4)
             health == get_health_indicator2(<<battery_voltage>>, current, battery_percent)
         IN  IF health.exc # NoExc THEN health
             ELSE Return([panel |-> [kind |-> "battery", voltage |-> battery_voltage,
                                     current |-> current, percent |-> battery_percent,
                                     health |-> health.val],
                          current |-> current])

\* returns (panel, voltages)
make_cell_voltages_panel(data) ==
    IF Len(data) < 8 THEN Raise("IndexError")
    ELSE LET voltages == <<Word(data, 0), Word(data, 2), Word(data, 4), Word(data, 6)>>
         IN  Return([panel |-> [kind |-> "cells", voltages |-> voltages],
                     voltages |-> voltages])

make_cell_info(data) ==
    IF Len(data) < 8 THEN Raise("IndexError")
    ELSE LET voltages == <<Word(data, 0), Word(data, 2), Word(data, 4), Word(data, 6)>>
         IN  Return([panel |-> [kind |-> "cells", voltages |-> voltages],
                     voltages |-> voltages])

make_power_panel(data) ==
    IF Len(data) < 6 THEN Raise("IndexError")
    ELSE Return([kind |-> "power", vbus_voltage |-> Word(data, 0),
                 vbus_current |-> Word(data, 2), vbus_power_raw |-> Word(data, 4)])

make_power_info(data) ==
    IF Len(data) < 6 THEN Raise("IndexError")
    ELSE Return([kind |-> "power", vbus_voltage |-> Word(data, 0),
                 vbus_current |-> Word(data, 2), vbus_power_raw |-> Word(data, 4)])

\* any(v < LOW_VOL for v in voltages) and current < 50
check_shutdown_condition(voltages, current) ==
    (\E i \in 1..Len(voltages) : voltages[i] < LOW_VOL) /\ current < 50

check_shutdown_condition2(voltages, current) ==
    (\E i \in 1..Len(voltages) : voltages[i] < LOW_VOL2) /\ current < 50

----------------------------------------------------------------------------
(* What the bus can answer *)

\* the two bytes of a 16-bit register, low byte first
Bytes(x) == <<x % 256, x \div 256>>
\* the register image of a signed pack current under the device's convention
RawCurrent(c) == IF c < 0 THEN c + 65535 ELSE c

PackBlock(v, c, p) ==
    Bytes(v) \o Bytes(RawCurrent(c)) \o Bytes(p) \o Bytes(3000) \o Bytes(60) \o Bytes(30)
CellBlock(a, b, c, d) == Bytes(a) \o Bytes(b) \o Bytes(c) \o Bytes(d)

\* bus.read_i2c_block_data either raises OSError or returns a block; a block
\* shorter than the decoder indexes (pack, cells) stands for a truncated transfer
StatusReads == {Raise("OSError"), Return(<<0>>), Return(<<128>>)}
PowerReads  == {Raise("OSError"), Return(<<16, 39, 0, 0, 232, 3>>)}
PackReads   == {Raise("OSError"), Return(SubSeq(PackBlock(16000, 500, 80), 1, 10)),
                Return(PackBlock(16000, 500, 80)), Return(PackBlock(16000, -600, 10)),
                Return(PackBlock(0, 0, 80))}
CellReads   == {Raise("OSError"), Return(SubSeq(CellBlock(3700, 3700, 3700, 3700), 1, 6)),
                Return(CellBlock(3700, 3700, 3700, 3700)),
                Return(CellBlock(2400, 3700, 3700, 3700))}

----------------------------------------------------------------------------
(* main(): the polling loop *)

Exited == {"stopped", "fatal"}

\* `except Exception as e` inside the loop: every exception a cycle raises
Exception == {"OSError", "IndexError", "ZeroDivisionError", "ValueError",
              "KeyError", "UnboundLocalError"}

\* a plausible slip: only the transport error is caught
LoopCatchesOSError(e) == e = "OSError"

LoopCatches(e) == e \in Exception

LoopCatches2(e) == e \in Exception

\* the history of one poll cycle
\*   exc        the exception the try body raised ("none": none so far)
\*   failed_at  the step that raised it
\*   steps      the steps completed, in order
\*   presented  the register groups whose panel was presented
\*   cond       what check_shutdown_condition returned ("none": not called)
\*   warned     the low-voltage warning panel was raised
NewCycle == [exc |-> NoExc, failed_at |-> "none", steps |-> <<>>, presented |-> {},
             warned |-> FALSE, cond |-> "none"]

\* a plausible slip: the error panel goes to the region of the group that failed
ErrorRegionOfGroup(lay, where, e) ==
    IF where = "status" THEN [lay EXCEPT !.header = ErrorPanel(e)]
    ELSE IF where = "power" THEN [lay EXCEPT !.power = ErrorPanel(e)]
    ELSE IF where = "cells" THEN [lay EXCEPT !.cells = ErrorPanel(e)]
    ELSE [lay EXCEPT !.battery = ErrorPanel(e)]

\* layout["battery"].update(error_panel)
ShowError(lay, where, e) == [lay EXCEPT !.battery = ErrorPanel(e)]

\* variant 1: exception e leaves the try body at step `where`
Except1(e, where, cyc) ==
    /\ cyc1' = [cyc EXCEPT !.exc = e, !.failed_at = where]
    /\ IF LoopCatches(e)
       THEN /\ layout' = ShowError(layout, where, e)
            /\ pc1' = "sleep"
       ELSE /\ layout' = layout
            /\ pc1' = "fatal"
    /\ UNCHANGED <<low_count1, current1, voltages1>>

\* variant 2: console.print(error_panel)
Except2(e, where, cyc) ==
    /\ cyc2' = [cyc EXCEPT !.exc = e, !.failed_at = where]
    /\ IF LoopCatches2(e)
       THEN /\ console' = Append(console, ErrorPanel(e))
            /\ pc2' = "sleep"
       ELSE /\ console' = console
            /\ pc2' = "fatal"
    /\ UNCHANGED <<low_count2, current2, voltages2>>

Skip1 == UNCHANGED <<pc1, low_count1, current1, voltages1, layout, cyc1>>
Skip2 == UNCHANGED <<pc2, low_count2, current2, voltages2, console, cyc2>>

Did(cyc, step) == [cyc EXCEPT !.steps = Append(@, step)]
Present(cyc, group) == [cyc EXCEPT !.presented = @ \cup {group}]

Status1(r) ==
    IF pc1 # "read_status" THEN Skip1
    ELSE IF r.exc # NoExc THEN Except1(r.exc, "status", cyc1)
    ELSE LET done == Did(cyc1, "read_status")
         IN  IF Len(r.val) < 1 THEN Except1("IndexError", "status", done)
             ELSE LET s == get_charging_state(r.val[1])
                  IN  IF s.exc # NoExc THEN Except1(s.exc, "status", done)
                      ELSE /\ layout' = [layout EXCEPT !.header =
                                        [kind |-> "header", state |-> s.val]]
                           /\ pc1' = "read_power"
                           /\ cyc1' = Present(done, "status")
                           /\ UNCHANGED <<low_count1, current1, voltages1>>

Status2(r) ==
    IF pc2 # "read_status" THEN Skip2
    ELSE IF r.exc # NoExc THEN Except2(r.exc, "status", cyc2)
    ELSE LET done == Did(cyc2, "read_status")
         IN  IF Len(r.val) < 1 THEN Except2("IndexError", "status", done)
             ELSE LET s == get_charging_state2(r.val[1])
                  IN  IF s.exc # NoExc THEN Except2(s.exc, "status", done)
                      ELSE \* console.clear(); console.print(header)
                           /\ console' = <<[kind |-> "header", state |-> s.val]>>
                           /\ pc2' = "read_power"
                           /\ cyc2' = Present(done, "status")
                           /\ UNCHANGED <<low_count2, current2, voltages2>>

Power1(r) ==
    IF pc1 # "read_power" THEN Skip1
    ELSE IF r.exc # NoExc THEN Except1(r.exc, "power", cyc1)
    ELSE LET p == make_power_panel(r.val)
             done == Did(cyc1, "read_power")
         IN  IF p.exc # NoExc THEN Except1(p.exc, "power", done)
             ELSE /\ layout' = [layout EXCEPT !.power = p.val]
                  /\ pc1' = "read_pack"
                  /\ cyc1' = Present(done, "power")
                  /\ UNCHANGED <<low_count1, current1, voltages1>>

Power2(r) ==
    IF pc2 # "read_power" THEN Skip2
    ELSE IF r.exc # NoExc THEN Except2(r.exc, "power", cyc2)
    ELSE LET p == make_power_info(r.val)
             done == Did(cyc2, "read_power")
         IN  IF p.exc # NoExc THEN Except2(p.exc, "power", done)
             ELSE /\ console' = Append(console, p.val)
                  /\ pc2' = "read_pack"
                  /\ cyc2' = Present(done, "power")
                  /\ UNCHANGED <<low_count2, current2, voltages2>>

Pack1(r) ==
    IF pc1 # "read_pack" THEN Skip1
    ELSE IF r.exc # NoExc THEN Except1(r.exc, "pack", cyc1)
    ELSE LET p == make_battery_panel(r.val)
             done == Did(cyc1, "read_pack")
         IN  IF p.exc = "IndexError" THEN Except1(p.exc, "pack", done)
             ELSE IF p.exc # NoExc THEN Except1(p.exc, "health", done)
             ELSE /\ current1' = Bound(p.val.current)
                  /\ layout' = [layout EXCEPT !.battery = p.val.panel]
                  /\ pc1' = "read_cells"
                  /\ cyc1' = Present(Did(done, "health"), "pack")
                  /\ UNCHANGED <<low_count1, voltages1>>

Pack2(r) ==
    IF pc2 # "read_pack" THEN Skip2
    ELSE IF r.exc # NoExc THEN Except2(r.exc, "pack", cyc2)
    ELSE LET p == make_battery_info(r.val)
             done == Did(cyc2, "read_pack")
         IN  IF p.exc = "IndexError" THEN Except2(p.exc, "pack", done)
             ELSE IF p.exc # NoExc THEN Except2(p.exc, "health", done)
             ELSE /\ current2' = Bound(p.val.current)
                  /\ console' = Append(console, p.val.panel)
                  /\ pc2' = "read_cells"
                  /\ cyc2' = Present(Did(done, "health"), "pack")
                  /\ UNCHANGED <<low_count2, voltages2>>

Cells1(r) ==
    IF pc1 # "read_cells" THEN Skip1
    ELSE IF r.exc # NoExc THEN Except1(r.exc, "cells", cyc1)
    ELSE LET p == make_cell_voltages_panel(r.val)
             done == Did(cyc1, "read_cells")
         IN  IF p.exc # NoExc THEN Except1(p.exc, "cells", done)
             ELSE /\ voltages1' = Bound(p.val.voltages)
                  /\ layout' = [layout EXCEPT !.cells = p.val.panel]
                  /\ pc1' = "check"
                  /\ cyc1' = Present(done, "cells")
                  /\ UNCHANGED <<low_count1, current1>>

Cells2(r) ==
    IF pc2 # "read_cells" THEN Skip2
    ELSE IF r.exc # NoExc THEN Except2(r.exc, "cells", cyc2)
    ELSE LET p == make_cell_info(r.val)
             done == Did(cyc2, "read_cells")
         IN  IF p.exc # NoExc THEN Except2(p.exc, "cells", done)
             ELSE /\ voltages2' = Bound(p.val.voltages)
                  /\ console' = Append(console, p.val.panel)
                  /\ pc2' = "check"
                  /\ cyc2' = Present(done, "cells")
                  /\ UNCHANGED <<low_count2, current2>>

\* variant 1: low_count is local to main(), so `low_count += 1` reads a name
\* that is unbound until the else branch has assigned it once
Check1 ==
    IF pc1 # "check" THEN Skip1
    ELSE IF check_shutdown_condition(ValueOf(voltages1), ValueOf(current1))
    THEN IF low_count1 = Unbound
         THEN Except1("UnboundLocalError", "check", [cyc1 EXCEPT !.cond = "true"])
         ELSE LET n == ValueOf(low_count1) + 1
              IN  /\ low_count1' = Bound(n)
                  /\ layout' = IF n >= 3 THEN [layout EXCEPT !.cells = WarningPanel]
                               ELSE layout
                  /\ cyc1' = [Did(cyc1, "shutdown") EXCEPT !.cond = "true", !.warned = (n >= 3)]
                  /\ pc1' = "sleep"
                  /\ UNCHANGED <<current1, voltages1>>
    ELSE /\ low_count1' = Bound(0)
         /\ cyc1' = [Did(cyc1, "shutdown") EXCEPT !.cond = "false"]
         /\ pc1' = "sleep"
         /\ UNCHANGED <<current1, voltages1, layout>>

\* variant 2: `global low_count`
Check2 ==
    IF pc2 # "check" THEN Skip2
    ELSE IF check_shutdown_condition2(ValueOf(voltages2), ValueOf(current2))
    THEN LET n == ValueOf(low_count2) + 1
         IN  /\ low_count2' = Bound(n)
             /\ console' = IF n >= 3 THEN Append(console, WarningPanel)
                           ELSE console
             /\ cyc2' = [Did(cyc2, "shutdown") EXCEPT !.cond = "true", !.warned = (n >= 3)]
             /\ pc2' = "sleep"
             /\ UNCHANGED <<current2, voltages2>>
    ELSE /\ low_count2' = Bound(0)
         /\ cyc2' = [Did(cyc2, "shutdown") EXCEPT !.cond = "false"]
         /\ pc2' = "sleep"
         /\ UNCHANGED <<current2, voltages2, console>>

\* time.sleep(0.5), then the next iteration of `while True`
Sleep1 ==
    IF pc1 # "sleep" THEN Skip1
    ELSE /\ pc1' = "read_status"
         /\ cyc1' = NewCycle
         /\ UNCHANGED <<low_count1, current1, voltages1, layout>>

Sleep2 ==
    IF pc2 # "sleep" THEN Skip2
    ELSE /\ pc2' = "read_status"
         /\ cyc2' = NewCycle
         /\ UNCHANGED <<low_count2, current2, voltages2, console>>

----------------------------------------------------------------------------
(* The two variants side by side on the same bus answers *)

\* every variant still running is at step p
At(p) ==
    /\ pc1 = p \/ pc2 = p
    /\ pc1 \in {p} \cup Exited
    /\ pc2 \in {p} \cup Exited

\* the shutdown condition in the words of the specification
ConditionHolds(voltages, current) ==
    (\E i \in 1..Len(voltages) : voltages[i] < 2500) /\ current < 50

Observed ==
    IF pc1 = "check" THEN ConditionHolds(ValueOf(voltages1), ValueOf(current1))
    ELSE ConditionHolds(ValueOf(voltages2), ValueOf(current2))

Last3(s) == IF Len(s) > 3 THEN SubSeq(s, Len(s) - 2, Len(s)) ELSE s

\* a step before the check has left the try body through an exception
Aborted == cyc1.failed_at \notin {"none", "check"} \/ cyc2.failed_at \notin {"none", "check"}

Failing(r, need) == r.exc # NoExc \/ Len(r.val) < need

ReadStatus ==
    /\ At("read_status")
    /\ \E r \in StatusReads :
          /\ Failing(r, 1) /\ pc2 = "read_status" => Len(console) < MaxConsole
          /\ Status1(r)
          /\ Status2(r)
    /\ gap' = (gap \/ Aborted')
    /\ UNCHANGED <<hist, arg, ret>>

ReadPower ==
    /\ At("read_power")
    /\ \E r \in PowerReads : Power1(r) /\ Power2(r)
    /\ gap' = (gap \/ Aborted')
    /\ UNCHANGED <<hist, arg, ret>>

ReadPack ==
    /\ At("read_pack")
    /\ \E r \in PackReads : Pack1(r) /\ Pack2(r)
    /\ gap' = (gap \/ Aborted')
    /\ UNCHANGED <<hist, arg, ret>>

ReadCells ==
    /\ At("read_cells")
    /\ \E r \in CellReads : Cells1(r) /\ Cells2(r)
    /\ gap' = (gap \/ Aborted')
    /\ UNCHANGED <<hist, arg, ret>>

Check ==
    /\ At("check")
    /\ Observed /\ pc1 = "check" /\ low_count1 # Unbound => ValueOf(low_count1) < MaxCount
    /\ Observed /\ pc2 = "check" /\ low_count2 # Unbound => ValueOf(low_count2) < MaxCount
    /\ Check1
    /\ Check2
    /\ hist' = Last3(Append(hist, [cond |-> Observed, gap |-> gap]))
    /\ gap' = FALSE
    /\ UNCHANGED <<arg, ret>>

Sleep ==
    /\ At("sleep")
    /\ Sleep1
    /\ Sleep2
    /\ UNCHANGED <<hist, gap, arg, ret>>

\* KeyboardInterrupt is no Exception: it leaves main() and is reported by the
\* handler at the bottom of the file
Interrupt ==
    /\ pc1 \notin Exited \/ pc2 \notin Exited
    /\ pc1' = IF pc1 \in Exited THEN pc1 ELSE "stopped"
    /\ pc2' = IF pc2 \in Exited THEN pc2 ELSE "stopped"
    /\ UNCHANGED <<low_count1, current1, voltages1, layout, cyc1,
                   low_count2, current2, voltages2, console, cyc2, hist, gap, arg, ret>>

NoCall == [fn |-> "none"]

InitMain ==
    /\ pc1 = "read_status"
    /\ low_count1 = Unbound
    /\ current1 = Unbound
    /\ voltages1 = Unbound
    /\ layout = [header |-> EmptyPanel, power |-> EmptyPanel,
                 battery |-> EmptyPanel, cells |-> EmptyPanel]
    /\ cyc1 = NewCycle
    /\ pc2 = "read_status"
    /\ low_count2 = Bound(0)
    /\ current2 = Unbound
    /\ voltages2 = Unbound
    /\ console = <<>>
    /\ cyc2 = NewCycle
    /\ hist = <<>>
    /\ gap = FALSE

Init ==
    /\ InitMain
    /\ arg = NoCall
    /\ ret = NoCall

Loop == ReadStatus \/ ReadPower \/ ReadPack \/ ReadCells \/ Check \/ Sleep

Next ==
    \/ ReadStatus
    \/ ReadPower
    \/ ReadPack
    \/ ReadCells
    \/ Check
    \/ Sleep
    \/ Interrupt

Spec == Init /\ [][Next]_vars

\* the interpreter keeps executing main(): a bus read returns or raises, the
\* sleep returns
FairSpec == Init /\ [][Next]_vars /\ WF_vars(Loop)

----------------------------------------------------------------------------
(* The pure functions on their own: the argument is drawn by the initial  *)
(* state, the action applies the function of both variants to it.         *)

\* the pack block holding bytes lo, hi at offsets 2 and 3
PackBlockWithCurrent(lo, hi) ==
    Bytes(16000) \o <<lo, hi>> \o Bytes(80) \o Bytes(3000) \o Bytes(60) \o Bytes(30)

InitCurrent ==
    /\ InitMain
    /\ arg \in {[fn |-> "make_battery_panel", data |-> PackBlockWithCurrent(lo, hi)] :
                   lo \in 0..255, hi \in 0..255}
    /\ ret = NoCall

CallBatteryPanel ==
    /\ arg.fn = "make_battery_panel"
    /\ ret = NoCall
    /\ ret' = [fn |-> arg.fn, v1 |-> make_battery_panel(arg.data),
               v2 |-> make_battery_info(arg.data)]
    /\ UNCHANGED <<arg, mainVars>>

SpecCurrent == InitCurrent /\ [][CallBatteryPanel]_vars

InitCharge ==
    /\ InitMain
    /\ arg \in {[fn |-> "get_charging_state", data_byte |-> b] : b \in 0..255}
    /\ ret = NoCall

CallChargingState ==
    /\ arg.fn = "get_charging_state"
    /\ ret = NoCall
    /\ ret' = [fn |-> arg.fn, v1 |-> get_charging_state(arg.data_byte),
               v2 |-> get_charging_state2(arg.data_byte)]
    /\ UNCHANGED <<arg, mainVars>>

SpecCharge == InitCharge /\ [][CallChargingState]_vars

\* 3780 is exactly 10% below 4200, 3779 just past it
HealthVoltages == {0, 3779, 3780, 4200}
HealthCurrents == {-501, -500, 0}
HealthPercentages == {19, 20, 90}
VoltageLists == UNION {[1..n -> HealthVoltages] : n \in 0..MaxLen}

InitHealth ==
    /\ InitMain
    /\ arg \in {[fn |-> "get_health_indicator", voltages |-> vs, current |-> c,
                 percentage |-> p] :
                   vs \in VoltageLists, c \in HealthCurrents, p \in HealthPercentages}
    /\ ret = NoCall

CallHealthIndicator ==
    /\ arg.fn = "get_health_indicator"
    /\ ret = NoCall
    /\ ret' = [fn |-> arg.fn,
               v1 |-> get_health_indicator(arg.voltages, arg.current, arg.percentage),
               v2 |-> get_health_indicator2(arg.voltages, arg.current, arg.percentage)]
    /\ UNCHANGED <<arg, mainVars>>

SpecHealth == InitHealth /\ [][CallHealthIndicator]_vars

----------------------------------------------------------------------------
(* Claims *)

SetMax(S) == CHOOSE x \in S : \A y \in S : y <= x
SetMin(S) == CHOOSE x \in S : \A y \in S : x <= y
Range(s) == {s[i] : i \in 1..Len(s)}

\* C4: for every byte pair (lo, hi) at offsets 2 and 3 of the pack block, with
\* raw = lo | (hi << 8), the decoded pack current is raw when raw <= 32767 and
\* raw - 65535 when raw > 32767, and it lies in -32768..32767.
C4_PackCurrentDecoding ==
    ret.fn = "make_battery_panel" =>
        LET raw == arg.data[3] + 256 * arg.data[4]
            expected == IF raw <= 32767 THEN raw ELSE raw - 65535
        IN  /\ ret.v1.exc = NoExc
            /\ ret.v2.exc = NoExc
            /\ ret.v1.val.current = expected
            /\ ret.v2.val.current = expected
            /\ ret.v1.val.current \in -32768..32767
            /\ ret.v2.val.current \in -32768..32767

\* the smallest raw value past 0x7FFF has been decoded: 0x8000 gives -32767
C4_Witness ==
    /\ ret.fn = "make_battery_panel"
    /\ arg.data[3] = 0
    /\ arg.data[4] = 128
    /\ ret.v1.val.current = -32767

\* C5: for every status byte 0..255 get_charging_state returns exactly one state
\* and never fails: Fast Charging when bit 0x40 is set (bit 0x80 set or not),
\* Charging when bit 0x80 is set and bit 0x40 clear, Discharging when both are
\* clear; Idle is returned for no byte.
C5_ChargingStateOfEveryByte ==
    ret.fn = "get_charging_state" =>
        LET b == arg.data_byte
            bit40 == (b \div 64) % 2 = 1
            bit80 == (b \div 128) % 2 = 1
            expected == IF bit40 THEN "Fast Charging"
                        ELSE IF bit80 THEN "Charging" ELSE "Discharging"
        IN  /\ ret.v1 = Return(expected)
            /\ ret.v2 = Return(expected)
            /\ ret.v1 # Return("Idle")
            /\ ret.v2 # Return("Idle")

\* both charge bits and other bits set: 0xE3 is classified Fast Charging
C5_Witness ==
    /\ ret.fn = "get_charging_state"
    /\ arg.data_byte = 227
    /\ ret.v1 = Return("Fast Charging")

\* C6: for every non-empty voltage list with a positive maximum, every current
\* and every percentage, get_health_indicator returns the first match of: Poor
\* when (max - min) * 100 > 10 * max, else Fair when current < -500, else Caution
\* when percentage < 20, else Good.
C6_HealthPriorityOrder ==
    (ret.fn = "get_health_indicator" /\ arg.voltages # <<>>
        /\ SetMax(Range(arg.voltages)) > 0) =>
        LET mx == SetMax(Range(arg.voltages))
            mn == SetMin(Range(arg.voltages))
            expected == IF (mx - mn) * 100 > 10 * mx THEN "Poor"
                        ELSE IF arg.current < -500 THEN "Fair"
                        ELSE IF arg.percentage < 20 THEN "Caution"
                        ELSE "Good"
        IN  /\ ret.v1 = Return(expected)
            /\ ret.v2 = Return(expected)

\* an imbalance just above 10% wins over a high discharge and a low charge
C6_Witness ==
    /\ ret.fn = "get_health_indicator"
    /\ arg.voltages = <<4200, 3779>>
    /\ arg.current = -501
    /\ arg.percentage = 19
    /\ ret.v1 = Return("Poor")

----------------------------------------------------------------------------
(* Claims about the polling loop *)

Groups == {"status", "power", "pack", "cells"}
PreCheck == {"read_status", "read_power", "read_pack", "read_cells"}

\* the register groups that come before group g in a cycle
GroupsBefore(g) ==
    CASE g = "status" -> {}
      [] g = "power"  -> {"status"}
      [] g = "pack"   -> {"status", "power"}
      [] g = "cells"  -> {"status", "power", "pack"}

\* the Layout region that presents group g
RegionOf(lay, g) ==
    CASE g = "status" -> lay.header
      [] g = "power"  -> lay.power
      [] g = "pack"   -> lay.battery
      [] g = "cells"  -> lay.cells

\* the condition held in the last three observations
ThreeInARow(h) == Len(h) = 3 /\ \A i \in 1..3 : h[i].cond
\* ... and failed cycles lie between them
SeparatedByFailures(h) == Len(h) = 3 /\ \E i \in 2..3 : h[i].gap

\* the counter a variant holds; a name never assigned still has the value the
\* module gave it at start
CounterOf(lc) == IF lc = Unbound THEN 0 ELSE ValueOf(lc)

\* max - min of the cell voltages exceeds 10% of max
SpreadAbove10(v) ==
    (SetMax(Range(v)) - SetMin(Range(v))) * 100 > 10 * SetMax(Range(v))

\* C1: starting from a counter of 0, the warning is raised in a cycle exactly
\* when the shutdown condition held in that cycle and in the two observations
\* before it; an observation with the condition false resets the counter to 0.
C1_WarningExactlyOnThirdObservation ==
    /\ (pc1 = "sleep" /\ cyc1.cond # "none") =>
          /\ cyc1.warned <=> ThreeInARow(hist)
          /\ cyc1.cond = "false" => low_count1 = Bound(0)
    /\ (pc2 = "sleep" /\ cyc2.cond # "none") =>
          /\ cyc2.warned <=> ThreeInARow(hist)
          /\ cyc2.cond = "false" => low_count2 = Bound(0)

\* C2: no failure inside a cycle ends the polling loop: the exception is
\* caught inside the loop, so main() is never left with a fatal error, and
\* after a cycle has raised, the next cycle is started unless the operator
\* interrupts the process.
C2_LoopSurvivesFailures ==
    /\ [](pc1 # "fatal" /\ pc2 # "fatal")
    /\ (cyc1.exc # NoExc) ~> (pc1 = "read_status" \/ pc1 = "stopped")
    /\ (cyc2.exc # NoExc) ~> (pc2 = "read_status" \/ pc2 = "stopped")

\* a new cycle is starting while both displays still show the error of the
\* cycle that failed before it
C2_Witness ==
    /\ pc1 = "read_status"
    /\ cyc1 = NewCycle
    /\ layout.battery.kind = "error"
    /\ pc2 = "read_status"
    /\ cyc2 = NewCycle
    /\ Len(console) > 0
    /\ console[Len(console)].kind = "error"

\* C3 as stated: when one register group fails, the other three groups are
\* presented in that cycle, and the error indicator stands in the place of
\* the failed group and of no other.
C3_OnlyFailedGroupAborted ==
    /\ (pc1 = "sleep" /\ cyc1.failed_at \in Groups) =>
          /\ cyc1.presented = Groups \ {cyc1.failed_at}
          /\ RegionOf(layout, cyc1.failed_at).kind = "error"
          /\ \A g \in Groups \ {cyc1.failed_at} : RegionOf(layout, g).kind # "error"
    /\ (pc2 = "sleep" /\ cyc2.failed_at \in Groups) =>
          cyc2.presented = Groups \ {cyc2.failed_at}

\* C3 as amended: when the read or decode of a register group fails, the rest
\* of the cycle is aborted: exactly the groups before it have been presented
\* in the cycle, no later group is read and the shutdown check is not made.
\* Variant 1 puts the error indicator in the battery region whichever group
\* failed and leaves the other regions as they were; variant 2 prints it after
\* the panels already on the console.
C3_FailureAbortsRestOfCycle ==
    /\ []((pc1 = "sleep" /\ cyc1.failed_at \in Groups) =>
             /\ cyc1.presented = GroupsBefore(cyc1.failed_at)
             /\ cyc1.cond = "none"
             /\ layout.battery = ErrorPanel(cyc1.exc))
    /\ []((pc2 = "sleep" /\ cyc2.failed_at \in Groups) =>
             /\ cyc2.presented = GroupsBefore(cyc2.failed_at)
             /\ cyc2.cond = "none"
             /\ console[Len(console)] = ErrorPanel(cyc2.exc))
    /\ [][(cyc1.failed_at = "none" /\ cyc1'.failed_at \in Groups) =>
             /\ pc1' = "sleep"
             /\ layout' = [layout EXCEPT !.battery = ErrorPanel(cyc1'.exc)]]_vars
    /\ [][(cyc2.failed_at = "none" /\ cyc2'.failed_at \in Groups) =>
             /\ pc2' = "sleep"
             /\ console' = Append(console, ErrorPanel(cyc2'.exc))]_vars

\* the cell read failed after status, power and pack had been presented: the
\* error stands in the battery region, over the pack panel of the same cycle
C3_Witness ==
    /\ pc1 = "sleep"
    /\ cyc1.failed_at = "cells"
    /\ cyc1.presented = {"status", "power", "pack"}
    /\ layout.battery.kind = "error"
    /\ layout.cells.kind = "empty"
    /\ pc2 = "sleep"
    /\ cyc2.failed_at = "cells"
    /\ Len(console) = 4
    /\ console[4].kind = "error"

\* C7: in no poll cycle, whatever the pack and cell blocks hold, does the
\* health evaluation divide by a maximum voltage of 0.
C7_NoDivisionByZero ==
    /\ cyc1.exc # "ZeroDivisionError"
    /\ cyc2.exc # "ZeroDivisionError"

\* C8: the steps of a cycle are status read, input-power read, pack read, cell
\* read, health evaluation, shutdown observation, and the health evaluation
\* takes the four cell voltages: a cell bank spread above 10% is shown as Poor.
C8_HealthAfterCellsOnCellVoltages ==
    /\ (pc1 = "sleep" /\ cyc1.exc = NoExc) =>
          cyc1.steps = <<"read_status", "read_power", "read_pack", "read_cells",
                         "health", "shutdown">>
    /\ (pc1 = "check" /\ SpreadAbove10(ValueOf(voltages1))) =>
          layout.battery.health = "Poor"
    /\ (pc2 = "sleep" /\ cyc2.exc = NoExc) =>
          cyc2.steps = <<"read_status", "read_power", "read_pack", "read_cells",
                         "health", "shutdown">>
    /\ (pc2 = "check" /\ SpreadAbove10(ValueOf(voltages2))) =>
          console[3].health = "Poor"

\* C9: a cycle that fails before the shutdown check leaves the counter as it
\* was, so condition-true observations separated only by failed cycles count
\* as consecutive and the third of them raises the warning.
C9_FailedCycleKeepsCounter ==
    [][/\ (pc1 \in PreCheck /\ pc1' = "sleep") => low_count1' = low_count1
       /\ (pc2 \in PreCheck /\ pc2' = "sleep") => low_count2' = low_count2
       /\ (pc1 = "check" /\ pc1' = "sleep" /\ ThreeInARow(hist')
              /\ SeparatedByFailures(hist')) => cyc1'.warned
       /\ (pc2 = "check" /\ pc2' = "sleep" /\ ThreeInARow(hist')
              /\ SeparatedByFailures(hist')) => cyc2'.warned]_vars

\* C10: side by side on the same bus answers, the two variants hold the same
\* counter after every cycle, raise the warning in the same cycles and take
\* the error path in the same cycles.
C10_VariantsAgree ==
    (pc1 = "sleep" /\ pc2 = "sleep") =>
        /\ CounterOf(low_count1) = CounterOf(low_count2)
        /\ cyc1.warned = cyc2.warned
        /\ (cyc1.exc # NoExc) = (cyc2.exc # NoExc)

====
